---- MODULE Spec2Model ----
(***************************************************************************)
(* The vacation store of bot.py: a spreadsheet of rows (username, start,   *)
(* end) below a header row, the five sheet helper functions that read and  *)
(* write it, and the four slash-command handlers that call them.           *)
(*                                                                         *)
(* A string is a sequence of character codes, so that str.lower() is       *)
(* computed and not assumed. A cell is a string; the empty cell is <<>>.   *)
(* A row is a sequence of three cells (columns A, B, C).                   *)
(***************************************************************************)
EXTENDS Integers, Sequences, FiniteSets, TLC

VARIABLES sheet, rows, hdr, last, response,
          phase, env, web, http, pc, inv, loc, out, loop, sent

\* the store, and the call and response of the latest command
storeVars == <<sheet, rows, hdr, last, response>>
\* the process, its web server thread and the command invocations in flight
botVars == <<phase, env, web, http, pc, inv, loc, out, loop, sent>>

vars == <<sheet, rows, hdr, last, response,
          phase, env, web, http, pc, inv, loc, out, loop, sent>>

(***************************************************************************)
(* Bounds of the model.                                                    *)
(***************************************************************************)
\* the handlers stop appending when the sheet holds this many rows
MaxRows == 3

(***************************************************************************)
(* Strings.                                                                *)
(***************************************************************************)
EmptyStr == <<>>
\* "Name", "Start", "End": the header cells of the sheet
NameStr == <<78, 97, 109, 101>>
StartStr == <<83, 116, 97, 114, 116>>
EndStr == <<69, 110, 100>>
\* the username arguments the commands are called with: "", "a", "A", "b", "name"
Usernames == {EmptyStr, <<97>>, <<65>>, <<98>>, <<110, 97, 109, 101>>}
\* the (start_date, end_date) arguments: ("1", "2"), ("2", "2"), ("1", "")
DateArgs == {<<<<49>>, <<50>>>>, <<<<50>>, <<50>>>>, <<<<49>>, EmptyStr>>}

\* find_row's "no row" result (Python None); row indices start at 1
None == 0

Min(S) == CHOOSE x \in S : \A y \in S : x <= y
Max(S) == CHOOSE x \in S : \A y \in S : x >= y

\* str.lower() on ASCII text
lower(s) == [i \in 1..Len(s) |-> IF s[i] \in 65..90 THEN s[i] + 32 ELSE s[i]]

(***************************************************************************)
(* The worksheet calls the helpers make. The sheet returns values without  *)
(* trailing empty cells (col_values, row_values) and pads get_all_values   *)
(* to the width of the widest row.                                         *)
(***************************************************************************)
Header == <<NameStr, StartStr, EndStr>>

\* a list without its trailing empty cells
TrimTrailing(cells) ==
    LET used == {i \in 1..Len(cells) : cells[i] # EmptyStr}
    IN  IF used = {} THEN <<>> ELSE SubSeq(cells, 1, Max(used))

col_values(rws, col) == TrimTrailing([i \in 1..Len(rws) |-> rws[i][col]])

row_values(rws, row) ==
    IF row \in 1..Len(rws) THEN TrimTrailing(rws[row]) ELSE <<>>

get_all_values(rws) ==
    LET width == Max({0} \cup {Len(TrimTrailing(rws[i])) : i \in 1..Len(rws)})
    IN  [i \in 1..Len(rws) |-> SubSeq(rws[i], 1, width)]

append_row(rws, values) == Append(rws, values)

\* a cell below the last row is written into a row of empty cells
update_cell(rws, row, col, value) ==
    LET blank == <<EmptyStr, EmptyStr, EmptyStr>>
        grid == [i \in 1..(IF row > Len(rws) THEN row ELSE Len(rws)) |->
                    IF i <= Len(rws) THEN rws[i] ELSE blank]
    IN  [grid EXCEPT ![row] = [@ EXCEPT ![col] = value]]

\* delete_rows deleting the row below the one asked for
delete_rows_below(rws, row) ==
    IF row < Len(rws)
    THEN [i \in 1..(Len(rws) - 1) |-> IF i <= row THEN rws[i] ELSE rws[i + 1]]
    ELSE rws

\* deleting a row below the last row changes nothing
delete_rows(rws, row) ==
    IF row \in 1..Len(rws)
    THEN [i \in 1..(Len(rws) - 1) |-> IF i < row THEN rws[i] ELSE rws[i + 1]]
    ELSE rws

(***************************************************************************)
(* Sheet helper functions. Each takes the sheet handle (sh: TRUE when the  *)
(* connection was established, FALSE for sheet = None) and the rows, and   *)
(* gives its return value, the exception it raised ("" for none), the rows *)
(* it leaves and the worksheet calls it made.                              *)
(***************************************************************************)
\* find_row comparing the stored name with the argument as written
find_row_cs(sh, rws, username) ==
    IF ~sh THEN [row |-> None, calls |-> <<>>]
    ELSE LET usernames == col_values(rws, 1)
             hits == {index \in 1..Len(usernames) :
                        /\ usernames[index] # EmptyStr
                        /\ usernames[index] = username}
         IN  [row |-> IF hits = {} THEN None ELSE Min(hits),
              calls |-> <<"col_values">>]

\* find_row lowering the argument but not the stored name
find_row_half(sh, rws, username) ==
    IF ~sh THEN [row |-> None, calls |-> <<>>]
    ELSE LET usernames == col_values(rws, 1)
             hits == {index \in 1..Len(usernames) :
                        /\ usernames[index] # EmptyStr
                        /\ usernames[index] = lower(username)}
         IN  [row |-> IF hits = {} THEN None ELSE Min(hits),
              calls |-> <<"col_values">>]

find_row(sh, rws, username) ==
    IF ~sh THEN [row |-> None, calls |-> <<>>]
    ELSE LET usernames == col_values(rws, 1)
             hits == {index \in 1..Len(usernames) :
                        /\ usernames[index] # EmptyStr
                        /\ lower(usernames[index]) = lower(username)}
         IN  [row |-> IF hits = {} THEN None ELSE Min(hits),
              calls |-> <<"col_values">>]

\* set_vacation appending without looking the username up
set_vacation_append(sh, rws, username, start_date, end_date) ==
    IF ~sh
    THEN [rows |-> rws, row |-> None, exc |-> "Database not connected", calls |-> <<>>]
    ELSE [rows |-> append_row(rws, <<username, start_date, end_date>>),
          row |-> None, exc |-> "", calls |-> <<"append_row">>]

\* set_vacation writing start_date and end_date into each other's column
set_vacation_swap(sh, rws, username, start_date, end_date) ==
    IF ~sh
    THEN [rows |-> rws, row |-> None, exc |-> "Database not connected", calls |-> <<>>]
    ELSE LET f == find_row(sh, rws, username)
         IN  IF f.row = None
             THEN [rows |-> append_row(rws, <<username, start_date, end_date>>),
                   row |-> None, exc |-> "",
                   calls |-> f.calls \o <<"append_row">>]
             ELSE [rows |-> update_cell(update_cell(rws, f.row, 3, start_date),
                                        f.row, 2, end_date),
                   row |-> f.row, exc |-> "",
                   calls |-> f.calls \o <<"update_cell", "update_cell">>]

\* set_vacation rewriting the whole row, username included
set_vacation_rewrite(sh, rws, username, start_date, end_date) ==
    IF ~sh
    THEN [rows |-> rws, row |-> None, exc |-> "Database not connected", calls |-> <<>>]
    ELSE LET f == find_row(sh, rws, username)
         IN  IF f.row = None
             THEN [rows |-> append_row(rws, <<username, start_date, end_date>>),
                   row |-> None, exc |-> "",
                   calls |-> f.calls \o <<"append_row">>]
             ELSE [rows |-> [rws EXCEPT ![f.row] = <<username, start_date, end_date>>],
                   row |-> f.row, exc |-> "",
                   calls |-> f.calls \o <<"update_cell", "update_cell">>]

set_vacation(sh, rws, username, start_date, end_date) ==
    IF ~sh
    THEN [rows |-> rws, row |-> None, exc |-> "Database not connected", calls |-> <<>>]
    ELSE LET f == find_row(sh, rws, username)
         IN  IF f.row = None
             THEN [rows |-> append_row(rws, <<username, start_date, end_date>>),
                   row |-> None, exc |-> "",
                   calls |-> f.calls \o <<"append_row">>]
             ELSE [rows |-> update_cell(update_cell(rws, f.row, 2, start_date),
                                        f.row, 3, end_date),
                   row |-> f.row, exc |-> "",
                   calls |-> f.calls \o <<"update_cell", "update_cell">>]

remove_vacation(sh, rws, username) ==
    IF ~sh
    THEN [rows |-> rws, row |-> None, ok |-> FALSE,
          exc |-> "Database not connected", calls |-> <<>>]
    ELSE LET f == find_row(sh, rws, username)
         IN  IF f.row = None
             THEN [rows |-> rws, row |-> None, ok |-> FALSE, exc |-> "",
                   calls |-> f.calls]
             ELSE [rows |-> delete_rows(rws, f.row), row |-> f.row, ok |-> TRUE,
                   exc |-> "", calls |-> f.calls \o <<"delete_rows">>]

\* rec is <<>> for None, else <<username, start, end>>
get_vacation(sh, rws, username) ==
    IF ~sh THEN [rec |-> <<>>, row |-> None, calls |-> <<>>]
    ELSE LET f == find_row(sh, rws, username)
         IN  IF f.row = None
             THEN [rec |-> <<>>, row |-> None, calls |-> f.calls]
             ELSE LET data == row_values(rws, f.row)
                  IN  [rec |-> IF Len(data) < 3 THEN <<>>
                               ELSE <<data[1], data[2], data[3]>>,
                       row |-> f.row,
                       calls |-> f.calls \o <<"row_values">>]

\* list_vacations without its "if not sheet" guard
list_vacations_unguarded(sh, rws) ==
    LET all == get_all_values(rws)
        keep(row) == Len(row) >= 3 /\ row[1] # EmptyStr
    IN  [recs |-> IF all = <<>> THEN <<>> ELSE SelectSeq(Tail(all), keep),
         calls |-> <<"get_all_values">>]

\* recs is the list of <<username, start, end>> records
list_vacations(sh, rws) ==
    IF ~sh THEN [recs |-> <<>>, calls |-> <<>>]
    ELSE LET all == get_all_values(rws)
             keep(row) == Len(row) >= 3 /\ row[1] # EmptyStr
         IN  [recs |-> IF all = <<>> THEN <<>>
                       ELSE SelectSeq(Tail(all), keep),
              calls |-> <<"get_all_values">>]

(***************************************************************************)
(* The slash-command handlers. A response is the message the handler sends *)
(* to the invoking user: fmt names the f-string, args are the values       *)
(* formatted into it, err is the text of the exception formatted into it   *)
(* and lines are the entries of a list message.                            *)
(***************************************************************************)
Threshold == 1900
Prefix == 40
\* len() of the marker "\n... (and more)", the dots being one character
MarkerLen == 13

Message(fmt, args, err, lines) ==
    [fmt |-> fmt, args |-> args, err |-> err, lines |-> lines]

NoResponse == Message("", <<>>, "", <<>>)

\* len() of the line "* **{username}**: `{start}` -> `{end}`" of one record
LineLen(v) == 15 + Len(v[1]) + Len(v[2]) + Len(v[3])

RECURSIVE SumLineLen(_)
SumLineLen(vs) == IF vs = <<>> THEN 0 ELSE LineLen(Head(vs)) + SumLineLen(Tail(vs))

\* len("\n".join(lines))
JoinedLen(vs) == IF vs = <<>> THEN 0 ELSE SumLineLen(vs) + (Len(vs) - 1)

vacation_add_response(r, username, start_date, end_date) ==
    IF r.exc = ""
    THEN Message("Vacation added for", <<username, start_date, end_date>>, "", <<>>)
    ELSE Message("Failed to add vacation:", <<>>, r.exc, <<>>)

vacation_remove_response(r, username) ==
    IF r.exc # ""
    THEN Message("Failed to remove vacation:", <<>>, r.exc, <<>>)
    ELSE IF r.ok
         THEN Message("Vacation entry removed for", <<username>>, "", <<>>)
         ELSE Message("(warning) No vacation entry found for", <<username>>, "", <<>>)

vacation_view_response(r, username) ==
    IF r.rec = <<>>
    THEN Message("(info) No vacation entry found for", <<username>>, "", <<>>)
    ELSE Message("view", r.rec, "", <<>>)

\* vacation_list truncating from 1900 characters on, not above 1900
vacation_list_response_ge(r) ==
    IF r.recs = <<>>
    THEN Message("No vacations recorded yet.", <<>>, "", <<>>)
    ELSE IF JoinedLen(r.recs) >= Threshold
         THEN Message("list (and more)", <<>>, "",
                      SubSeq(r.recs, 1, IF Len(r.recs) < Prefix THEN Len(r.recs) ELSE Prefix))
         ELSE Message("list", <<>>, "", r.recs)

vacation_list_response(r) ==
    IF r.recs = <<>>
    THEN Message("No vacations recorded yet.", <<>>, "", <<>>)
    ELSE IF JoinedLen(r.recs) > Threshold
         THEN Message("list (and more)", <<>>, "",
                      SubSeq(r.recs, 1, IF Len(r.recs) < Prefix THEN Len(r.recs) ELSE Prefix))
         ELSE Message("list", <<>>, "", r.recs)

(***************************************************************************)
(* State. sheet: whether the connection at startup succeeded. rows: the    *)
(* worksheet. hdr: the row index of the header row written when the sheet  *)
(* was created (0 once it is deleted). last: the helper call the latest    *)
(* command made, with what it returned (again: it is a set_vacation that   *)
(* returned normally, made right after a set_vacation with the same        *)
(* username argument that returned normally). response: the message sent.  *)
(*                                                                         *)
(* phase: where the main thread is (import of the module, __main__, the    *)
(* bot serving commands, or the process has exited). env: the environment  *)
(* variables DISCORD_TOKEN, RENDER and GOOGLE_SERVICE_ACCOUNT_JSON. web:   *)
(* the Flask thread. http: the status of the latest answer to GET /.       *)
(* pc, inv, loc, out, sent: for each command invocation, the statement it  *)
(* is at, its command and arguments, the row find_row returned to it with  *)
(* the worksheet calls it has completed, the message it is about to send   *)
(* and what it has sent. loop: the invocations running the synchronous     *)
(* part of their handler (none when every invocation is at an await).      *)
(***************************************************************************)
Invocations == {1, 2}

NoInvocation == [cmd |-> "none", username |-> EmptyStr, start |-> EmptyStr, end |-> EmptyStr]

NoLocals == [row |-> None, calls |-> <<>>]

\* the bot is serving commands, no command has been invoked
BotIdle ==
    /\ phase = "serving"
    /\ env = [token |-> TRUE, render |-> FALSE, json |-> "valid"]
    /\ web = "listening"
    /\ http = 0
    /\ pc = [p \in Invocations |-> "idle"]
    /\ inv = [p \in Invocations |-> NoInvocation]
    /\ loc = [p \in Invocations |-> NoLocals]
    /\ out = [p \in Invocations |-> NoResponse]
    /\ loop = {}
    /\ sent = [p \in Invocations |-> <<>>]
Call(op, username, start_date, end_date, row, ok, rec, recs, exc, calls, again) ==
    [op |-> op, username |-> username, start |-> start_date, end |-> end_date,
     row |-> row, ok |-> ok, rec |-> rec, recs |-> recs, exc |-> exc,
     calls |-> calls, again |-> again]

Init ==
    /\ sheet \in BOOLEAN
    /\ rows = <<Header>>
    /\ hdr = 1
    /\ last = Call("none", EmptyStr, EmptyStr, EmptyStr, None, FALSE, <<>>, <<>>, "", <<>>, FALSE)
    /\ response = NoResponse
    /\ BotIdle

vacation_add(username, start_date, end_date) ==
    LET r == set_vacation(sheet, rows, username, start_date, end_date)
    IN  /\ Len(r.rows) <= MaxRows
        /\ rows' = r.rows
        /\ last' = Call("set_vacation", username, start_date, end_date, r.row,
                        FALSE, <<>>, <<>>, r.exc, r.calls,
                        /\ r.exc = ""
                        /\ last.op = "set_vacation"
                        /\ last.exc = ""
                        /\ last.username = username)
        /\ response' = vacation_add_response(r, username, start_date, end_date)
        /\ UNCHANGED <<sheet, hdr>>
        /\ UNCHANGED botVars

vacation_remove_cmd(username) ==
    LET r == remove_vacation(sheet, rows, username)
    IN  /\ rows' = r.rows
        /\ hdr' = IF r.row = None \/ hdr = 0 THEN hdr
                  ELSE IF r.row = hdr THEN 0
                  ELSE IF r.row < hdr THEN hdr - 1 ELSE hdr
        /\ last' = Call("remove_vacation", username, EmptyStr, EmptyStr, r.row,
                        r.ok, <<>>, <<>>, r.exc, r.calls, FALSE)
        /\ response' = vacation_remove_response(r, username)
        /\ UNCHANGED sheet
        /\ UNCHANGED botVars

vacation_view(username) ==
    LET r == get_vacation(sheet, rows, username)
    IN  /\ last' = Call("get_vacation", username, EmptyStr, EmptyStr, r.row,
                        FALSE, r.rec, <<>>, "", r.calls, FALSE)
        /\ response' = vacation_view_response(r, username)
        /\ UNCHANGED <<sheet, rows, hdr>>
        /\ UNCHANGED botVars

vacation_list ==
    LET r == list_vacations(sheet, rows)
    IN  /\ last' = Call("list_vacations", EmptyStr, EmptyStr, EmptyStr, None,
                        FALSE, <<>>, r.recs, "", r.calls, FALSE)
        /\ response' = vacation_list_response(r)
        /\ UNCHANGED <<sheet, rows, hdr>>
        /\ UNCHANGED botVars

Next ==
    \/ \E username \in Usernames, dates \in DateArgs :
          vacation_add(username, dates[1], dates[2])
    \/ \E username \in Usernames : vacation_remove_cmd(username)
    \/ \E username \in Usernames : vacation_view(username)
    \/ vacation_list

Spec == Init /\ [][Next]_vars

(***************************************************************************)
(* Properties.                                                             *)
(***************************************************************************)
\* the rows other than the header row the sheet was created with
DataIndices == {i \in 1..Len(rows) : i # hdr}

SameName(u, v) == lower(u) = lower(v)

\* C1 as stated: no two data rows have usernames that are equal under
\* case-insensitive comparison.
C1_UniqueUsernames ==
    \A i, j \in DataIndices : i # j => ~SameName(rows[i][1], rows[j][1])

\* C1 amended: no two data rows with a non-empty username have usernames that
\* are equal under case-insensitive comparison (rows with an empty username
\* may repeat).
C1_UniqueNonEmptyUsernames ==
    \A i, j \in DataIndices :
        (i # j /\ rows[i][1] # EmptyStr /\ rows[j][1] # EmptyStr)
            => ~SameName(rows[i][1], rows[j][1])

\* C1 witness: two data rows with usernames are in the sheet and the latest
\* upsert, called with another spelling of a stored username, updated its row.
C1_Witness ==
    /\ Cardinality({i \in DataIndices : rows[i][1] # EmptyStr}) >= 2
    /\ last.op = "set_vacation"
    /\ last.row \in DataIndices
    /\ rows[last.row][1] # last.username

\* C2 as stated: row 1 is the header and is never treated as data: find_row
\* never returns 1, get_vacation and list_vacations never return the header,
\* and no call changes or deletes row 1.
C2_HeaderNeverData ==
    /\ rows # <<>>
    /\ rows[1] = Header
    /\ \A u \in Usernames :
          /\ find_row(sheet, rows, u).row # 1
          /\ get_vacation(sheet, rows, u).row # 1
    /\ \A k \in 1..Len(list_vacations(sheet, rows).recs) :
          list_vacations(sheet, rows).recs[k] # rows[1]

\* the rows whose username matches u case-insensitively
RowsFor(rws, u) == {i \in 1..Len(rws) : SameName(rws[i][1], u)}

\* C3 as stated: for every username u, an upsert of u right after an upsert
\* of u leaves exactly one row for u, holding the second call's start and
\* end, and leaves the number of rows what it was after the first call.
C3_SecondUpsert ==
    [][last'.again =>
         /\ \E i \in 1..Len(rows') :
               /\ RowsFor(rows', last'.username) = {i}
               /\ rows'[i][2] = last'.start
               /\ rows'[i][3] = last'.end
         /\ Len(rows') = Len(rows)]_vars

\* C3 amended: for every non-empty username u, an upsert of u right after an
\* upsert of u leaves exactly one row whose username matches u, holding the
\* second call's start and end, and leaves the number of rows unchanged.
C3_SecondUpsertNonEmpty ==
    [][(last'.again /\ last'.username # EmptyStr) =>
         /\ \E i \in 1..Len(rows') :
               /\ RowsFor(rows', last'.username) = {i}
               /\ rows'[i][2] = last'.start
               /\ rows'[i][3] = last'.end
         /\ Len(rows') = Len(rows)]_vars

\* C3 witness: a second upsert of a non-empty username has run and has
\* replaced the start or end that the first one stored.
C3_Witness ==
    /\ last.again
    /\ last.username # EmptyStr
    /\ last.row \in DataIndices
    /\ <<last.start, last.end>> # <<<<49>>, <<50>>>>

\* a list of records holds a record for u
HasRecordFor(recs, u) == \E k \in 1..Len(recs) : SameName(recs[k][1], u)

\* C4: when remove_vacation(u) returns True, get_vacation(u) then returns
\* None and list_vacations() has no record for u; when find_row(u) finds no
\* row, remove_vacation(u) returns False and leaves the rows as they were.
C4_RemoveDeletes ==
    [][(last'.op = "remove_vacation" /\ last'.exc = "") =>
         /\ last'.ok =>
               /\ get_vacation(sheet', rows', last'.username).rec = <<>>
               /\ ~HasRecordFor(list_vacations(sheet', rows').recs, last'.username)
               /\ Len(rows') = Len(rows) - 1
         /\ find_row(sheet, rows, last'.username).row = None =>
               /\ ~last'.ok
               /\ rows' = rows
         /\ last'.ok <=> find_row(sheet, rows, last'.username).row # None]_vars

\* C4 witness: a remove returned True after deleting a row below row 1, and
\* list_vacations still returns records of other rows.
C4_Witness ==
    /\ last.op = "remove_vacation"
    /\ last.ok
    /\ last.row > 1
    /\ Len(rows) >= 2
    /\ list_vacations(sheet, rows).recs # <<>>

\* C5: lookup is case-insensitive. For usernames u and v that differ only in
\* letter case, find_row(v) returns the row find_row(u) returns and
\* get_vacation(v) the record get_vacation(u) returns; after set_vacation(u)
\* with a non-empty u both find that row; and set_vacation(v) and
\* remove_vacation(v) act on the row find_row(u) returned before the call.
C5_SameAddressing ==
    \A u, v \in Usernames : SameName(u, v) =>
        /\ find_row(sheet, rows, v).row = find_row(sheet, rows, u).row
        /\ get_vacation(sheet, rows, v).rec = get_vacation(sheet, rows, u).rec
        /\ (/\ last.op = "set_vacation"
            /\ last.exc = ""
            /\ last.username = u
            /\ u # EmptyStr) =>
               /\ find_row(sheet, rows, v).row # None
               /\ SameName(rows[find_row(sheet, rows, v).row][1], u)
               /\ rows[find_row(sheet, rows, v).row][2] = last.start
               /\ rows[find_row(sheet, rows, v).row][3] = last.end

C5_SameRowActedOn ==
    \A u \in Usernames :
        (/\ last'.op \in {"set_vacation", "remove_vacation"}
         /\ last'.exc = ""
         /\ SameName(u, last'.username)) =>
            last'.row = find_row(sheet, rows, u).row

C5_CaseInsensitive == []C5_SameAddressing /\ [][C5_SameRowActedOn]_vars

\* C5 witness: get_vacation, called with another spelling of a stored
\* username, returned that user's record.
C5_Witness ==
    /\ last.op = "get_vacation"
    /\ last.rec # <<>>
    /\ last.row \in DataIndices
    /\ last.rec[1] # last.username

NonEmptyArgs ==
    last.username # EmptyStr /\ last.start # EmptyStr /\ last.end # EmptyStr

\* C6 as stated: after set_vacation(username, start, end) with non-empty
\* arguments, get_vacation(username) returns a record whose three fields are
\* identical to the arguments.
C6_RoundTrip ==
    (last.op = "set_vacation" /\ last.exc = "" /\ NonEmptyArgs) =>
        get_vacation(sheet, rows, last.username).rec
            = <<last.username, last.start, last.end>>

\* C6 amended: after set_vacation(username, start, end) with non-empty
\* arguments, get_vacation(username) returns a record whose start and end are
\* identical to the arguments and whose username equals the argument under
\* case-insensitive comparison (it is the text stored in the row, which an
\* update leaves as it was).
C6_RoundTripUpToCase ==
    (last.op = "set_vacation" /\ last.exc = "" /\ NonEmptyArgs) =>
        LET rec == get_vacation(sheet, rows, last.username).rec
        IN  /\ rec # <<>>
            /\ SameName(rec[1], last.username)
            /\ rec[2] = last.start
            /\ rec[3] = last.end
            /\ last.row = None => rec[1] = last.username
            /\ last.row # None => rec[1] = rows[last.row][1]

\* C6 witness: set_vacation with non-empty arguments updated a row stored
\* under another spelling of the username.
C6_Witness ==
    /\ last.op = "set_vacation"
    /\ last.exc = ""
    /\ NonEmptyArgs
    /\ last.row # None
    /\ rows[last.row][1] # last.username
    /\ get_vacation(sheet, rows, last.username).rec # <<>>

\* the records of the rows the commands appended: every row but the header
\* row, as get_all_values returns it
ExpectedList ==
    LET all == get_all_values(rows)
        idx(i) == IF hdr = 0 THEN i ELSE i + 1
        n == IF hdr = 0 THEN Len(all) ELSE Len(all) - 1
        data == [i \in 1..n |-> all[idx(i)]]
        keep(row) == Len(row) >= 3 /\ row[1] # EmptyStr
    IN  SelectSeq(data, keep)

\* C7 as stated: list_vacations() returns exactly the data rows that have a
\* non-empty username and at least three fields, in the order in which the
\* rows were appended.
C7_ListIsDataRows ==
    sheet => list_vacations(sheet, rows).recs = ExpectedList

\* C8: when set_vacation finds a row for the username it changes only the
\* start and end cells of that row (the stored username, the row's position,
\* the number of rows and every other row stay as they were); when it finds
\* no row it adds exactly one row at the end and changes no existing row.
C8_UpsertFrame ==
    [][(last'.op = "set_vacation" /\ last'.exc = "") =>
         LET row == find_row(sheet, rows, last'.username).row
         IN  /\ row # None =>
                   /\ Len(rows') = Len(rows)
                   /\ \A i \in 1..Len(rows) : i # row => rows'[i] = rows[i]
                   /\ rows'[row] = <<rows[row][1], last'.start, last'.end>>
             /\ row = None =>
                   /\ Len(rows') = Len(rows) + 1
                   /\ \A i \in 1..Len(rows) : rows'[i] = rows[i]
                   /\ rows'[Len(rows')] = <<last'.username, last'.start, last'.end>>]_vars

\* C8 witness: set_vacation, called with another spelling of the username of
\* a row that is not the last one, has updated that row's start and end.
C8_Witness ==
    /\ last.op = "set_vacation"
    /\ last.row \in DataIndices
    /\ last.row < Len(rows)
    /\ rows[last.row][1] # last.username
    /\ rows[last.row][2] = <<50>>

\* C9: when sheet is None, find_row and get_vacation return None,
\* list_vacations returns [], set_vacation and remove_vacation raise
\* "Database not connected", and none of them calls the worksheet.
C9_Unavailable ==
    ~sheet =>
        /\ \A u \in Usernames :
              /\ find_row(sheet, rows, u) = [row |-> None, calls |-> <<>>]
              /\ get_vacation(sheet, rows, u).rec = <<>>
              /\ get_vacation(sheet, rows, u).calls = <<>>
              /\ remove_vacation(sheet, rows, u).exc = "Database not connected"
              /\ remove_vacation(sheet, rows, u).calls = <<>>
              /\ remove_vacation(sheet, rows, u).rows = rows
              /\ \A d \in DateArgs :
                    /\ set_vacation(sheet, rows, u, d[1], d[2]).exc = "Database not connected"
                    /\ set_vacation(sheet, rows, u, d[1], d[2]).calls = <<>>
                    /\ set_vacation(sheet, rows, u, d[1], d[2]).rows = rows
        /\ list_vacations(sheet, rows) = [recs |-> <<>>, calls |-> <<>>]
        /\ last.calls = <<>>
        /\ last.op \in {"set_vacation", "remove_vacation"} =>
              last.exc = "Database not connected"
        /\ last.op \in {"get_vacation", "list_vacations"} =>
              (last.exc = "" /\ last.rec = <<>> /\ last.recs = <<>>)
        /\ rows = <<Header>>

\* C9 witness: with sheet None a list command has run and has answered as
\* for an empty store.
C9_Witness ==
    /\ ~sheet
    /\ last.op = "list_vacations"
    /\ response.fmt = "No vacations recorded yet."

\* the response of each command as a function of the sheet handle
AddResponse(sh, u, d) ==
    vacation_add_response(set_vacation(sh, rows, u, d[1], d[2]), u, d[1], d[2])
RemoveResponse(sh, u) == vacation_remove_response(remove_vacation(sh, rows, u), u)
ViewResponse(sh, u) == vacation_view_response(get_vacation(sh, rows, u), u)
ListResponse(sh) == vacation_list_response(list_vacations(sh, rows))

\* C10 as stated: for add, remove, view and list, the response sent when the
\* store is unavailable differs from the response sent when the store is
\* available and the username has no record (for list: no records at all).
C10_UnavailableDistinct ==
    /\ \A u \in Usernames :
          get_vacation(TRUE, rows, u).rec = <<>> =>
              /\ \A d \in DateArgs : AddResponse(FALSE, u, d) # AddResponse(TRUE, u, d)
              /\ RemoveResponse(FALSE, u) # RemoveResponse(TRUE, u)
              /\ ViewResponse(FALSE, u) # ViewResponse(TRUE, u)
    /\ list_vacations(TRUE, rows).recs = <<>> => ListResponse(FALSE) # ListResponse(TRUE)

(***************************************************************************)
(* The list command on long sheets. The sheet holds the header and n       *)
(* records with distinct usernames, start "1" and end "2"; the first       *)
(* username has one length and the others another.                         *)
(***************************************************************************)
\* the numbers of records
ListCounts == {1, 2, 39, 40, 41}
\* the lengths of the usernames after the first
ListLens == {1, 29, 30, 47}
\* the lengths of the first username
ListFirstLens == {1, 50, 51, 1883, 1884}

\* the string of n characters c
Str(n, c) == [i \in 1..n |-> c]

LongSheet(n, len, first) ==
    <<Header>> \o [i \in 1..n |->
                     <<Str(IF i = 1 THEN first ELSE len, 96 + i), <<49>>, <<50>>>>]

InitList ==
    /\ sheet = TRUE
    /\ \E n \in ListCounts, len \in ListLens, first \in ListFirstLens :
          rows = LongSheet(n, len, first)
    /\ hdr = 1
    /\ last = Call("none", EmptyStr, EmptyStr, EmptyStr, None, FALSE, <<>>, <<>>, "", <<>>, FALSE)
    /\ response = NoResponse
    /\ BotIdle

NextList == vacation_list

SpecList == InitList /\ [][NextList]_vars

\* len() of the first k lines of the records joined by "\n"
RECURSIVE RenderLen(_, _)
RenderLen(recs, k) ==
    IF k = 0 THEN 0
    ELSE RenderLen(recs, k - 1) + (IF k > 1 THEN 1 ELSE 0)
         + 15 + Len(recs[k][1]) + Len(recs[k][2]) + Len(recs[k][3])

\* C12: the list command truncates exactly when the rendering of all
\* entries is longer than 1900 characters; the message is then the first 40
\* entries in store order (all of them when there are fewer) followed by the
\* marker, and otherwise all entries without the marker.
C12_Truncation ==
    (last.op = "list_vacations" /\ last.recs # <<>>) =>
        LET n == Len(last.recs)
            over == RenderLen(last.recs, n) > 1900
        IN  /\ last.recs = Tail(rows)
            /\ over <=> response.fmt = "list (and more)"
            /\ ~over <=> response.fmt = "list"
            /\ over => response.lines = [i \in 1..(IF n < 40 THEN n ELSE 40) |-> last.recs[i]]
            /\ ~over => response.lines = last.recs

\* C12 witness: a list of more than 40 entries was cut to its first 40.
C12_Witness ==
    /\ last.op = "list_vacations"
    /\ Len(last.recs) > 40
    /\ response.fmt = "list (and more)"
    /\ Len(response.lines) = 40
    /\ response.lines[40] = rows[41]

\* len() of the message the list command sent
ListMessageLen ==
    IF response.fmt = "list (and more)"
    THEN RenderLen(response.lines, Len(response.lines)) + MarkerLen
    ELSE RenderLen(response.lines, Len(response.lines))

\* C17 as stated: the message the list command passes to the platform is at
\* most 2000 characters long, also when the 40-entry prefix and the marker
\* are used.
C17_MessageFits ==
    (last.op = "list_vacations" /\ last.recs # <<>>) => ListMessageLen <= 2000

(***************************************************************************)
(* The command handlers statement by statement. A handler is a coroutine   *)
(* on the bot's event loop: it is suspended at each await (defer,          *)
(* followup.send, response.send_message), and between two awaits it runs   *)
(* without another handler running, because the sheet helpers are plain    *)
(* synchronous calls. Each worksheet call returns or raises.               *)
(***************************************************************************)
\* the usernames of the invocations: "a", "A", "b"
BotUsernames == {<<97>>, <<65>>, <<98>>}
\* the (start_date, end_date) arguments of the invocations: ("2", "1")
BotDateArgs == {<<<<50>>, <<49>>>>}
\* the worksheets the bot finds at startup: records written by earlier runs
BotSheets ==
    {<<Header>>,
     <<Header, <<<<97>>, <<49>>, <<50>>>>>>,
     <<Header, <<<<97>>, <<49>>, <<50>>>>, <<<<98>>, <<49>>, <<50>>>>>>}

\* the worksheet calls
StoreCalls == {"col_values", "append_row", "update_start", "update_end",
               "delete_rows", "row_values", "get_all_values"}

\* an event loop that would run a handler while another one is between awaits
CanRun_preemptive(p) == TRUE

\* the event loop resumes a handler only when no handler is between awaits
CanRun(p) == loop = {}

\* the interaction is dispatched to the command callback
Invoke(p, cmd, username, start_date, end_date) ==
    /\ phase = "serving"
    /\ pc[p] = "idle"
    /\ cmd = "add" =>
          Len(rows) + Cardinality({q \in Invocations :
                                     /\ inv[q].cmd = "add"
                                     /\ pc[q] \in {"defer", "try"} \cup StoreCalls})
              < MaxRows
    /\ inv' = [inv EXCEPT ![p] = [cmd |-> cmd, username |-> username,
                                  start |-> start_date, end |-> end_date]]
    /\ pc' = [pc EXCEPT ![p] = IF cmd = "view" THEN "try" ELSE "defer"]
    /\ UNCHANGED <<storeVars, phase, env, web, http, loc, out, loop, sent>>

\* await interaction.response.defer(ephemeral=True)
Defer(p) ==
    /\ phase = "serving"
    /\ pc[p] = "defer"
    /\ sent' = [sent EXCEPT ![p] = Append(@, Message("defer", <<>>, "", <<>>))]
    /\ pc' = [pc EXCEPT ![p] = "try"]
    /\ UNCHANGED <<storeVars, phase, env, web, http, inv, loc, out, loop>>

\* the message of the except branch of each handler
FailureMessage(cmd, err) ==
    IF cmd = "add" THEN Message("Failed to add vacation:", <<>>, err, <<>>)
    ELSE IF cmd = "remove" THEN Message("Failed to remove vacation:", <<>>, err, <<>>)
    ELSE IF cmd = "view" THEN Message("Failed to read vacation (see logs).", <<>>, "", <<>>)
    ELSE Message("Failed to list vacations (see logs).", <<>>, "", <<>>)

\* the handler leaves the helper with message m and reaches its next await
Finish(p, m) ==
    /\ out' = [out EXCEPT ![p] = m]
    /\ pc' = [pc EXCEPT ![p] = "send"]
    /\ loop' = loop \ {p}

\* the handler enters its try block and calls the helper, which tests sheet
Enter(p) ==
    /\ phase = "serving"
    /\ pc[p] = "try"
    /\ CanRun(p)
    /\ IF ~sheet
       THEN /\ Finish(p, IF inv[p].cmd \in {"add", "remove"}
                         THEN FailureMessage(inv[p].cmd, "Database not connected")
                         ELSE IF inv[p].cmd = "view"
                         THEN vacation_view_response(get_vacation(sheet, rows, inv[p].username),
                                                     inv[p].username)
                         ELSE vacation_list_response(list_vacations(sheet, rows)))
       ELSE /\ pc' = [pc EXCEPT ![p] = IF inv[p].cmd = "list" THEN "get_all_values"
                                      ELSE "col_values"]
            /\ loop' = loop \cup {p}
            /\ out' = out
    /\ UNCHANGED <<storeVars, phase, env, web, http, inv, loc, sent>>

\* an except branch that logs the exception and sends nothing
Raise_silent(p) ==
    /\ phase = "serving"
    /\ pc[p] \in StoreCalls
    /\ p \in loop
    /\ pc' = [pc EXCEPT ![p] = "done"]
    /\ loop' = loop \ {p}
    /\ UNCHANGED <<storeVars, phase, env, web, http, inv, loc, out, sent>>

\* the worksheet call the handler is at raises
Raise(p) ==
    /\ phase = "serving"
    /\ pc[p] \in StoreCalls
    /\ p \in loop
    /\ Finish(p, FailureMessage(inv[p].cmd, "APIError"))
    /\ UNCHANGED <<storeVars, phase, env, web, http, inv, loc, sent>>

Called(p, call) == [loc EXCEPT ![p].calls = Append(@, call)]

\* find_row: usernames = sheet.col_values(1) and the scan of the names
ColValues(p) ==
    /\ phase = "serving"
    /\ pc[p] = "col_values"
    /\ p \in loop
    /\ LET row == find_row(sheet, rows, inv[p].username).row
           cmd == inv[p].cmd
       IN  /\ loc' = [loc EXCEPT ![p] = [row |-> row, calls |-> Append(@.calls, "col_values")]]
           /\ IF row = None /\ cmd = "remove"
              THEN Finish(p, vacation_remove_response([exc |-> "", ok |-> FALSE],
                                                      inv[p].username))
              ELSE IF row = None /\ cmd = "view"
              THEN Finish(p, vacation_view_response([rec |-> <<>>], inv[p].username))
              ELSE /\ pc' = [pc EXCEPT ![p] =
                               IF cmd = "add"
                               THEN (IF row = None THEN "append_row" ELSE "update_start")
                               ELSE IF cmd = "remove" THEN "delete_rows"
                               ELSE "row_values"]
                   /\ UNCHANGED <<out, loop>>
    /\ UNCHANGED <<storeVars, phase, env, web, http, inv, sent>>

\* set_vacation: sheet.append_row([username, start_date, end_date])
AppendRow(p) ==
    /\ phase = "serving"
    /\ pc[p] = "append_row"
    /\ p \in loop
    /\ rows' = append_row(rows, <<inv[p].username, inv[p].start, inv[p].end>>)
    /\ loc' = Called(p, "append_row")
    /\ Finish(p, vacation_add_response([exc |-> ""], inv[p].username,
                                       inv[p].start, inv[p].end))
    /\ UNCHANGED <<sheet, hdr, last, response, phase, env, web, http, inv, sent>>

\* set_vacation: sheet.update_cell(row, 2, start_date)
UpdateStart(p) ==
    /\ phase = "serving"
    /\ pc[p] = "update_start"
    /\ p \in loop
    /\ rows' = update_cell(rows, loc[p].row, 2, inv[p].start)
    /\ loc' = Called(p, "update_cell")
    /\ pc' = [pc EXCEPT ![p] = "update_end"]
    /\ UNCHANGED <<sheet, hdr, last, response, phase, env, web, http, inv, out, loop, sent>>

\* set_vacation: sheet.update_cell(row, 3, end_date)
UpdateEnd(p) ==
    /\ phase = "serving"
    /\ pc[p] = "update_end"
    /\ p \in loop
    /\ rows' = update_cell(rows, loc[p].row, 3, inv[p].end)
    /\ loc' = Called(p, "update_cell")
    /\ Finish(p, vacation_add_response([exc |-> ""], inv[p].username,
                                       inv[p].start, inv[p].end))
    /\ UNCHANGED <<sheet, hdr, last, response, phase, env, web, http, inv, sent>>

\* remove_vacation: sheet.delete_rows(row)
DeleteRows(p) ==
    /\ phase = "serving"
    /\ pc[p] = "delete_rows"
    /\ p \in loop
    /\ rows' = delete_rows(rows, loc[p].row)
    /\ hdr' = IF hdr = 0 \/ loc[p].row > Len(rows) THEN hdr
              ELSE IF loc[p].row = hdr THEN 0
              ELSE IF loc[p].row < hdr THEN hdr - 1 ELSE hdr
    /\ loc' = Called(p, "delete_rows")
    /\ Finish(p, vacation_remove_response([exc |-> "", ok |-> TRUE], inv[p].username))
    /\ UNCHANGED <<sheet, last, response, phase, env, web, http, inv, sent>>

\* get_vacation: data = sheet.row_values(row) and the test of len(data)
RowValues(p) ==
    /\ phase = "serving"
    /\ pc[p] = "row_values"
    /\ p \in loop
    /\ LET data == row_values(rows, loc[p].row)
           rec == IF Len(data) < 3 THEN <<>> ELSE <<data[1], data[2], data[3]>>
       IN  Finish(p, vacation_view_response([rec |-> rec], inv[p].username))
    /\ loc' = Called(p, "row_values")
    /\ UNCHANGED <<storeVars, phase, env, web, http, inv, sent>>

\* list_vacations: rows = sheet.get_all_values() and the loop over rows[1:]
GetAllValues(p) ==
    /\ phase = "serving"
    /\ pc[p] = "get_all_values"
    /\ p \in loop
    /\ Finish(p, vacation_list_response(list_vacations(sheet, rows)))
    /\ loc' = Called(p, "get_all_values")
    /\ UNCHANGED <<storeVars, phase, env, web, http, inv, sent>>

\* await interaction.followup.send(...) / interaction.response.send_message(...)
Send(p) ==
    /\ phase = "serving"
    /\ pc[p] = "send"
    /\ sent' = [sent EXCEPT ![p] = Append(@, out[p])]
    /\ pc' = [pc EXCEPT ![p] = "done"]
    /\ UNCHANGED <<storeVars, phase, env, web, http, inv, loc, out, loop>>

\* the steps of invocation p after its dispatch
Step(p) ==
    \/ Defer(p)
    \/ Enter(p)
    \/ Raise(p)
    \/ ColValues(p)
    \/ AppendRow(p)
    \/ UpdateStart(p)
    \/ UpdateEnd(p)
    \/ DeleteRows(p)
    \/ RowValues(p)
    \/ GetAllValues(p)
    \/ Send(p)

InvokeAny(p) ==
    \/ \E username \in BotUsernames, dates \in BotDateArgs :
          Invoke(p, "add", username, dates[1], dates[2])
    \/ \E username \in BotUsernames : Invoke(p, "remove", username, EmptyStr, EmptyStr)
    \/ \E username \in BotUsernames : Invoke(p, "view", username, EmptyStr, EmptyStr)
    \/ Invoke(p, "list", EmptyStr, EmptyStr, EmptyStr)

InitBot ==
    /\ sheet \in BOOLEAN
    /\ rows \in BotSheets
    /\ hdr = 1
    /\ last = Call("none", EmptyStr, EmptyStr, EmptyStr, None, FALSE, <<>>, <<>>, "", <<>>, FALSE)
    /\ response = NoResponse
    /\ BotIdle

NextBot == \E p \in Invocations : InvokeAny(p) \/ Step(p)

SpecBot == InitBot /\ [][NextBot]_vars

\* every dispatched handler is resumed and every worksheet call returns or raises
FairSpecBot == SpecBot /\ \A p \in Invocations : WF_vars(Step(p))

\* the messages invocation p has sent, the deferral left out
Responses(p) == SelectSeq(sent[p], LAMBDA m : m.fmt # "defer")

\* a handler that deferred has sent the deferral first and nothing before it
DeferredFirst(p) ==
    /\ inv[p].cmd \in {"add", "remove", "list"} /\ pc[p] \notin {"idle", "defer"}
          => (sent[p] # <<>> /\ sent[p][1].fmt = "defer")
    /\ \A k \in 2..Len(sent[p]) : sent[p][k].fmt # "defer"
    /\ inv[p].cmd = "view" => \A k \in 1..Len(sent[p]) : sent[p][k].fmt # "defer"

C11_AtMostOne ==
    \A p \in Invocations :
        /\ Len(Responses(p)) <= 1
        /\ DeferredFirst(p)
        /\ pc[p] = "done" <=> Len(Responses(p)) = 1

C11_Eventually ==
    \A p \in Invocations : (pc[p] # "idle") ~> (pc[p] = "done" /\ Len(Responses(p)) = 1)

\* C11: every invocation of add, remove, view or list eventually sends
\* exactly one response (directly, or as the one follow-up of its deferral),
\* whether the helper succeeds, finds nothing or raises; no invocation ends
\* with none or with two.
C11_ExactlyOneResponse == []C11_AtMostOne /\ C11_Eventually

\* C11 witness: an add whose worksheet call raised and a view that found
\* nothing have both ended, each with its one response.
C11_Witness ==
    \E p, q \in Invocations :
        /\ pc[p] = "done" /\ pc[q] = "done"
        /\ inv[p].cmd = "add"
        /\ sent[p] = <<Message("defer", <<>>, "", <<>>), FailureMessage("add", "APIError")>>
        /\ inv[q].cmd = "view"
        /\ Len(sent[q]) = 1
        /\ sent[q][1].fmt = "(info) No vacation entry found for"

\* invocation p has called find_row and not yet made the call that follows it
BetweenFindAndMutate(p) == pc[p] \in {"append_row", "update_start", "delete_rows"}

\* C13 as stated: two concurrently running upsert/remove invocations for the
\* same username can interleave between find and mutate: while one is
\* between its find and its mutation, the other can make its worksheet calls.
C13_CanInterleave ==
    \A p, q \in Invocations :
        (/\ p # q
         /\ BetweenFindAndMutate(p)
         /\ pc[q] = "try"
         /\ inv[q].cmd \in {"add", "remove"}
         /\ SameName(inv[p].username, inv[q].username)) => ENABLED Enter(q)

\* C13 amended: two concurrently running invocations never interleave
\* between find and mutate: the helpers are synchronous calls, so while one
\* invocation is between its find_row and its mutation no other invocation
\* makes a worksheet call, the row index it holds is the row find_row would
\* return now, and no username gets two rows; invocations interleave only at
\* their awaits (defer and the send of the response).
C13_NoInterleaving ==
    /\ Cardinality(loop) <= 1
    /\ \A p \in Invocations : pc[p] \in StoreCalls <=> p \in loop
    /\ \A p \in Invocations :
          BetweenFindAndMutate(p) =>
              loc[p].row = find_row(sheet, rows, inv[p].username).row
    /\ \A i, j \in 1..Len(rows) :
          (i # j /\ rows[i][1] # EmptyStr) => ~SameName(rows[i][1], rows[j][1])

\* C13 witness: two adds of a username that had no row were in flight
\* together; one has appended the row and not yet sent its response, the
\* other has deferred and not yet called set_vacation.
C13_Witness ==
    \E p, q \in Invocations :
        /\ p # q
        /\ inv[p].cmd = "add" /\ inv[q].cmd = "add"
        /\ SameName(inv[p].username, inv[q].username)
        /\ pc[p] = "send" /\ loc[p].calls = <<"col_values", "append_row">>
        /\ pc[q] = "try"
        /\ Cardinality(RowsFor(rows, inv[q].username)) = 1

\* the rows that do not hold username u, in sheet order
RowsOfOthers(rws, u) == SelectSeq(rws, LAMBDA r : ~SameName(r[1], u))

C16_FailedAddChangesNothing ==
    \A p \in Invocations :
        (/\ inv[p].cmd = "add"
         /\ pc[p] \in {"send", "done"}
         /\ out[p].fmt = "Failed to add vacation:") =>
            /\ "update_cell" \notin {loc[p].calls[k] : k \in 1..Len(loc[p].calls)}
            /\ "append_row" \notin {loc[p].calls[k] : k \in 1..Len(loc[p].calls)}

(***************************************************************************)
(* The process from its start: the module-level code (token check, sheet   *)
(* connection), __main__ (keep_alive, bot.run) and the Flask thread, which *)
(* is a daemon thread and ends with the main thread.                       *)
(***************************************************************************)
\* TOKEN = os.environ.get("DISCORD_TOKEN") and the test of it
CheckToken ==
    /\ phase = "import"
    /\ phase' = IF env.token \/ env.render THEN "connect" ELSE "exited"
    /\ UNCHANGED <<storeVars, env, web, http, pc, inv, loc, out, loop, sent>>

\* if SERVICE_JSON: try to open the sheet; an exception leaves sheet = None
ConnectSheet ==
    /\ phase = "connect"
    /\ IF env.json = "valid" THEN sheet' \in BOOLEAN ELSE sheet' = FALSE
    /\ phase' = "main"
    /\ UNCHANGED <<rows, hdr, last, response, env, web, http, pc, inv, loc, out, loop, sent>>

\* keep_alive(): the Flask thread is started
keep_alive ==
    /\ phase = "main"
    /\ web' = "started"
    /\ phase' = "run"
    /\ UNCHANGED <<storeVars, env, http, pc, inv, loc, out, loop, sent>>

\* run_web_server(): app.run binds the port
run_web_server ==
    /\ web = "started"
    /\ web' = "listening"
    /\ UNCHANGED <<storeVars, phase, env, http, pc, inv, loc, out, loop, sent>>

\* if TOKEN: bot.run(TOKEN); else the main thread ends, and the process with it
RunBot ==
    /\ phase = "run"
    /\ IF env.token
       THEN phase' = "serving" /\ web' = web
       ELSE phase' = "exited" /\ web' = "off"
    /\ UNCHANGED <<storeVars, env, http, pc, inv, loc, out, loop, sent>>

\* bot.run returns or raises: the main thread ends, and the process with it
BotStops ==
    /\ phase = "serving"
    /\ phase' = "exited"
    /\ web' = "off"
    /\ UNCHANGED <<storeVars, env, http, pc, inv, loc, out, loop, sent>>

\* a GET / served by the bot's event loop instead of the Flask thread
home_on_loop ==
    /\ web = "listening"
    /\ loop = {}
    /\ http' = 200
    /\ UNCHANGED <<storeVars, phase, env, web, pc, inv, loc, out, loop, sent>>

\* GET / answered by the Flask thread
home ==
    /\ web = "listening"
    /\ http' = 200
    /\ UNCHANGED <<storeVars, phase, env, web, pc, inv, loc, out, loop, sent>>

InitProc ==
    /\ phase = "import"
    /\ env \in [token : BOOLEAN, render : BOOLEAN, json : {"absent", "valid"}]
    /\ web = "off"
    /\ http = 0
    /\ sheet = FALSE
    /\ rows \in BotSheets
    /\ hdr = 1
    /\ last = Call("none", EmptyStr, EmptyStr, EmptyStr, None, FALSE, <<>>, <<>>, "", <<>>, FALSE)
    /\ response = NoResponse
    /\ pc = [p \in Invocations |-> "idle"]
    /\ inv = [p \in Invocations |-> NoInvocation]
    /\ loc = [p \in Invocations |-> NoLocals]
    /\ out = [p \in Invocations |-> NoResponse]
    /\ loop = {}
    /\ sent = [p \in Invocations |-> <<>>]

NextProc ==
    \/ CheckToken
    \/ ConnectSheet
    \/ keep_alive
    \/ run_web_server
    \/ RunBot
    \/ BotStops
    \/ home
    \/ InvokeAny(1)
    \/ Step(1)

SpecProc == InitProc /\ [][NextProc]_vars

\* C14 as stated: GET / answers 200 in every state in which the bot process
\* is running, whatever the state of the store and of the command handlers.
C14_AlwaysAnswers == phase # "exited" => ENABLED home

C14_Listening == web = "listening" => (phase # "exited" /\ ENABLED home)

C14_StaysListening == (web = "listening" /\ phase' # "exited") => web' = "listening"

\* C14 amended: GET / answers 200 in every state from the moment the Flask
\* thread started by keep_alive() is listening until the process exits,
\* whether or not the sheet was connected and whether or not a handler is
\* inside a worksheet call or has raised; nothing but the end of the process
\* stops it. It does not answer while the module-level code (token check,
\* sheet connection) runs, which is before keep_alive().
C14_AnswersOnceListening == []C14_Listening /\ [][C14_StaysListening]_vars

\* C14 witness: GET / was answered while a handler is inside a worksheet call.
C14_Witness ==
    /\ web = "listening"
    /\ http = 200
    /\ \E p \in Invocations : pc[p] \in StoreCalls /\ p \in loop

\* C18 as stated: without a token and with RENDER set the process never
\* serves commands but the web server keeps running after startup; without
\* a token and without RENDER the process exits before serving anything.
C18_WebOutlivesMissingToken ==
    /\ ~env.token => (phase # "serving" /\ \A p \in Invocations : pc[p] = "idle")
    /\ (~env.token /\ env.render /\ phase \notin {"import", "connect", "main", "run"})
          => (phase # "exited" /\ web \in {"started", "listening"})
    /\ (~env.token /\ ~env.render)
          => (phase \in {"import", "exited"} /\ web = "off" /\ http = 0)

====
